---- MODULE Spec2Model ----
(***************************************************************************)
(* NovaFlow accessibility engine: the capture / analyse / score pipeline   *)
(* of nova_engine.py and the scorer of utils/wcag_scorer.py.               *)
(*                                                                         *)
(* Python strings that the code inspects character by character (WCAG      *)
(* identifiers, severities) are sequences of one-character strings.  The   *)
(* classifier's raw text is a sequence of tokens: "{", "}", "x" (any other *)
(* character) and payload tokens standing for a well-formed run of JSON    *)
(* members.                                                                *)
(***************************************************************************)
EXTENDS Integers, Sequences, FiniteSets, TLC

\* one run of the pipeline
VARIABLES pc, url, log, screenshot_path, shot_by, attempt, analysis,
          results, exc, stdout, exit_code, trace, tiers, sleeps, scored

\* a caller of calculate_wcag_scores: its list, the list it started with,
\* the summary of its first call and of its latest call
VARIABLES s_pc, s_issues, s_orig, s_first, s_summary

svars == <<s_pc, s_issues, s_orig, s_first, s_summary>>

\* several runs appending to the log file of one day: the file, and for each
\* run the position in log_step, the number of entries it has logged and the
\* text its open file object still holds
VARIABLES file, l_pc, l_done, l_buf

lvars == <<file, l_pc, l_done, l_buf>>

pvars == <<pc, url, log, screenshot_path, shot_by, attempt, analysis,
           results, exc, stdout, exit_code, trace, tiers, sleeps, scored>>

vars == <<pvars, svars, lvars>>

(* ---------------------------- bounds ----------------------------------- *)

\* longest classifier text, in tokens
MaxTextLen == 3

\* longest list of freely chosen issues handed to the scorer
MaxIssues == 2

\* most copies of one issue in a list handed to the scorer
MaxRepeat == 6

\* runs that append to the same log file
NumRuns == 2

\* entries each of them logs
EntriesPerRun == 2

(* ------------------------- Python values ------------------------------- *)

\* a value read with dict.get: a string, a missing key, or a non-string
StrV(s) == [t |-> "str", s |-> s]
AbsentV == [t |-> "absent", s |-> <<>>]
OtherV  == [t |-> "other", s |-> <<>>]

\* dict.get(key, default) on such a value
Get(v, default) == IF v.t = "absent" THEN StrV(default) ELSE v

\* an issue as the classifier returns it: a dict, or something else
Issue(id, sev) == [isDict |-> TRUE, wcag_id |-> id, severity |-> sev]
NotADict == [isDict |-> FALSE, wcag_id |-> AbsentV, severity |-> AbsentV]

\* str.upper() on the letters the model uses
UpperChar(c) ==
  CASE c = "c" -> "C" [] c = "r" -> "R" [] c = "i" -> "I" [] c = "t" -> "T"
    [] c = "a" -> "A" [] c = "l" -> "L" [] c = "m" -> "M" [] c = "j" -> "J"
    [] c = "o" -> "O" [] c = "n" -> "N" [] c = "f" -> "F" [] c = "h" -> "H"
    [] c = "g" -> "G"
    [] OTHER -> c

Upper(s) == [k \in 1..Len(s) |-> UpperChar(s[k])]

\* as StartsWith, with receiver and argument exchanged
StartsWith_reversed(s, p) == Len(s) <= Len(p) /\ SubSeq(p, 1, Len(s)) = s

\* str.startswith
StartsWith(s, p) == Len(p) <= Len(s) /\ SubSeq(s, 1, Len(p)) = p

(* ------------------------- wcag_scorer.py ------------------------------ *)

Code(a, b, c) == <<a, ".", b, ".", c>>

PrincipleNames == <<"Perceivable", "Operable", "Understandable", "Robust">>

WCAG_PRINCIPLES ==
  [Perceivable |->
     <<Code("1","1","1"), Code("1","2","1"), Code("1","2","2"),
       Code("1","3","1"), Code("1","3","2"), Code("1","4","1"),
       Code("1","4","3"), Code("1","4","4"), Code("1","4","1") \o <<"1">> >>,
   Operable |->
     <<Code("2","1","1"), Code("2","1","2"), Code("2","2","1"),
       Code("2","2","2"), Code("2","3","1"), Code("2","4","1"),
       Code("2","4","2"), Code("2","4","3"), Code("2","4","4"),
       Code("2","4","7")>>,
   Understandable |->
     <<Code("3","1","1"), Code("3","1","2"), Code("3","2","1"),
       Code("3","2","2"), Code("3","3","1"), Code("3","3","2"),
       Code("3","3","3"), Code("3","3","4")>>,
   Robust |->
     <<Code("4","1","1"), Code("4","1","2"), Code("4","1","3")>>]

SevCRITICAL == <<"C","R","I","T","I","C","A","L">>
SevMAJOR    == <<"M","A","J","O","R">>
SevMINOR    == <<"M","I","N","O","R">>
SevINFO     == <<"I","N","F","O">>

\* SEVERITY_DEDUCTIONS.get(key, 4)
SEVERITY_DEDUCTIONS(key) ==
  CASE key = SevCRITICAL -> 20
    [] key = SevMAJOR    -> 10
    [] key = SevMINOR    -> 4
    [] key = SevINFO     -> 1
    [] OTHER             -> 4

\* any(wcag_id.startswith(code) for code in codes)
MatchesPrinciple(wcag_id, p) ==
  \E k \in 1..Len(WCAG_PRINCIPLES[p]) : StartsWith(wcag_id, WCAG_PRINCIPLES[p][k])

\* the first principle, in dict order, one of whose codes prefixes the
\* identifier; "" when none does (the issue is unclassified)
PrincipleOf(issue) ==
  LET wcag_id == Get(issue.wcag_id, <<>>).s
      hits == {k \in 1..Len(PrincipleNames) : MatchesPrinciple(wcag_id, PrincipleNames[k])}
  IN IF hits = {} THEN ""
     ELSE PrincipleNames[CHOOSE k \in hits : \A j \in hits : k <= j]

\* the exceptions of calculate_wcag_scores: issue.get on a non-dict,
\* wcag_id.startswith and severity.upper() on a non-string
ScoreRaises(issues) ==
  \E k \in 1..Len(issues) :
     \/ ~issues[k].isDict
     \/ issues[k].wcag_id.t = "other"
     \/ issues[k].severity.t = "other"

\* as SumDeductions, assigning each weight instead of adding it
SumDeductions_lastOnly(issues, p) ==
  LET at == {k \in 1..Len(issues) : PrincipleOf(issues[k]) = p}
      last == CHOOSE k \in at : \A j \in at : k >= j
  IN IF at = {} THEN 0
     ELSE SEVERITY_DEDUCTIONS(Upper(Get(issues[last].severity, SevMINOR).s))

RECURSIVE SumDeductions(_, _)
SumDeductions(issues, p) ==
  IF issues = <<>> THEN 0
  ELSE (IF PrincipleOf(Head(issues)) = p
        THEN SEVERITY_DEDUCTIONS(Upper(Get(Head(issues).severity, SevMINOR).s))
        ELSE 0)
       + SumDeductions(Tail(issues), p)

Max(a, b) == IF a >= b THEN a ELSE b
Min(a, b) == IF a <= b THEN a ELSE b

\* as PrincipleScore, without the floor at zero
PrincipleScore_noFloor(issues, p) == 100 - SumDeductions(issues, p)

PrincipleScore(issues, p) == Max(0, 100 - SumDeductions(issues, p))

OverallScore(issues) ==
  (PrincipleScore(issues, "Perceivable") + PrincipleScore(issues, "Operable")
   + PrincipleScore(issues, "Understandable") + PrincipleScore(issues, "Robust"))
  \div Len(PrincipleNames)

\* as WcagLevel, with exclusive lower bounds
WcagLevel_exclusive(overall) ==
  IF overall > 90 THEN "AAA - Enhanced"
  ELSE IF overall > 75 THEN "AA - Conformant"
  ELSE IF overall > 55 THEN "AA - Partially Conformant"
  ELSE "A - Partially Conformant"

WcagLevel(overall) ==
  IF overall >= 90 THEN "AAA - Enhanced"
  ELSE IF overall >= 75 THEN "AA - Conformant"
  ELSE IF overall >= 55 THEN "AA - Partially Conformant"
  ELSE "A - Partially Conformant"

\* sum(1 for i in issues if i.get("severity", "").upper() == sev)
SeverityCount(issues, sev) ==
  Cardinality({k \in 1..Len(issues) : Upper(Get(issues[k].severity, <<>>).s) = sev})

calculate_wcag_scores(issues) ==
  [scores_by_principle |->
     [p \in {"Perceivable", "Operable", "Understandable", "Robust"} |->
        PrincipleScore(issues, p)],
   overall_score |-> OverallScore(issues),
   wcag_level |-> WcagLevel(OverallScore(issues)),
   total_issues |-> Len(issues),
   critical_count |-> SeverityCount(issues, SevCRITICAL),
   major_count |-> SeverityCount(issues, SevMAJOR),
   minor_count |-> SeverityCount(issues, SevMINOR),
   unclassified_count |-> Cardinality({k \in 1..Len(issues) : PrincipleOf(issues[k]) = ""})]

NoScores == [p \in {"Perceivable", "Operable", "Understandable", "Robust"} |-> 0]

\* no summary yet
NoSummary ==
  [scores_by_principle |-> NoScores, overall_score |-> -1, wcag_level |-> "",
   total_issues |-> -1, critical_count |-> -1, major_count |-> -1, minor_count |-> -1,
   unclassified_count |-> -1]

(* --------------------------- log_step ---------------------------------- *)

\* one entry of the step log; fields a call does not pass keep their blanks
Entry(action, status) ==
  [action |-> action, status |-> status, url |-> "", attempt |-> 0,
   issue_count |-> -1, error |-> "", raw |-> <<>>, score |-> -1]

log_step(l, step_data) == Append(l, step_data)

Runs == 1..NumRuns

\* json.dumps(entry) of the k-th entry of run r, and the "\n" after it
ObjText(r, k) == [t |-> "obj", run |-> r, k |-> k]
Newline == [t |-> "nl", run |-> 0, k |-> 0]

\* json.dumps(entry, default=str) + "\n"
LineText(r, k) == <<ObjText(r, k), Newline>>

\* as OpenFile, with mode "w"
OpenFile_truncate(f) == <<>>

\* open(filename, "a"): the content of the file stays
OpenFile(f) == f

\* f.write(text): the text goes to the buffer of the file object as one piece
BufferWrite(text) == <<text>>

\* the write of one piece by a file opened for appending: at the end of the
\* file as it is at that moment
AppendWrite(f, piece) == f \o piece

(* ------------------------ analyse_with_nova ---------------------------- *)

max_retries == 3

\* text_output[:200]
RawLimit == 200

TextTokens == {"{", "}", "x", "P"}

RECURSIVE SeqsUpTo(_, _)
SeqsUpTo(S, n) ==
  IF n = 0 THEN {<<>>}
  ELSE LET shorter == SeqsUpTo(S, n - 1)
       IN shorter \cup {Append(t, c) : t \in {u \in shorter : Len(u) = n - 1}, c \in S}

Texts == SeqsUpTo(TextTokens, MaxTextLen)

\* str.find / str.rfind, 0-based, -1 when the character is absent
Find(text, c) ==
  LET at == {k \in 1..Len(text) : text[k] = c}
  IN IF at = {} THEN -1 ELSE (CHOOSE k \in at : \A j \in at : k <= j) - 1

RFind(text, c) ==
  LET at == {k \in 1..Len(text) : text[k] = c}
  IN IF at = {} THEN -1 ELSE (CHOOSE k \in at : \A j \in at : k >= j) - 1

\* text[lo:hi], 0-based, hi exclusive
Slice(text, lo, hi) == SubSeq(text, lo + 1, Min(hi, Len(text)))

\* json.loads accepts an object with no members or with one run of members
JsonLoadsOk(json_str) == json_str = <<"{", "}">> \/ json_str = <<"{", "P", "}">>

\* what the members run "P" of a response holds
ListV(items) == [t |-> "list", items |-> items]
NullV == [t |-> "null", items |-> <<>>]

IdAlt      == StrV(Code("1","1","1"))
IdFocus    == StrV(Code("2","4","7"))
IdUnknown  == StrV(Code("9","9","9"))

Payloads ==
  { [wcag_issues |-> ListV(<<>>), web_grounding_sources |-> <<>>,
     overall_assessment |-> "No issues detected"],
    [wcag_issues |-> ListV(<<Issue(IdAlt, StrV(SevCRITICAL))>>),
     web_grounding_sources |-> <<"WCAG 2.1 AA">>, overall_assessment |-> "Summary"],
    [wcag_issues |-> ListV(<<Issue(IdFocus, AbsentV), Issue(IdUnknown, StrV(SevMAJOR))>>),
     web_grounding_sources |-> <<"WCAG 2.1 AA">>, overall_assessment |-> "Summary"],
    [wcag_issues |-> NullV, web_grounding_sources |-> <<>>, overall_assessment |-> "Summary"],
    [wcag_issues |-> ListV(<<NotADict>>), web_grounding_sources |-> <<>>,
     overall_assessment |-> "Summary"],
    [wcag_issues |-> ListV(<<Issue(IdAlt, OtherV)>>), web_grounding_sources |-> <<>>,
     overall_assessment |-> "Summary"],
    [wcag_issues |-> ListV(<<Issue(OtherV, StrV(SevMINOR))>>), web_grounding_sources |-> <<>>,
     overall_assessment |-> "Summary"] }

\* parsed.get(key, default) of an object without members
EmptyObject ==
  [wcag_issues |-> ListV(<<>>), web_grounding_sources |-> <<>>, overall_assessment |-> ""]

\* one classifier call: it raises, or answers with a text
Responses ==
  {[raises |-> TRUE, text |-> <<>>, payload |-> EmptyObject]}
  \cup {[raises |-> FALSE, text |-> t, payload |-> p] : t \in Texts, p \in Payloads}

\* the object json.loads returns for json_str
JsonLoads(json_str, payload) == IF json_str = <<"{", "}">> THEN EmptyObject ELSE payload

\* how one pass through the try block ends: "success" and "no_json" return,
\* the others are exceptions caught by the except clause
AttemptKind(resp) ==
  IF resp.raises THEN "raise"
  ELSE LET json_start == Find(resp.text, "{")
           json_end == RFind(resp.text, "}")
           json_str == Slice(resp.text, json_start, json_end + 1)
       IN IF json_start # -1 /\ json_end # -1
          THEN IF ~JsonLoadsOk(json_str) THEN "parse_fail"
               ELSE IF JsonLoads(json_str, resp.payload).wcag_issues.t # "list" THEN "len_error"
               ELSE "success"
          ELSE "no_json"

\* as IsException, with the parse failure not reaching the except clause
IsException_noParse(kind) == kind \in {"raise", "len_error"}

IsException(kind) == kind \in {"raise", "parse_fail", "len_error"}

\* str(e)
ErrorText(kind) ==
  CASE kind = "raise" -> "ClientError"
    [] kind = "parse_fail" -> "JSONDecodeError"
    [] kind = "len_error" -> "TypeError"
    [] OTHER -> ""

\* the object parsed on a successful attempt
ParsedOf(resp) ==
  JsonLoads(Slice(resp.text, Find(resp.text, "{"), RFind(resp.text, "}") + 1), resp.payload)

\* as RetryAfter, off by one
RetryAfter_offByOne(a) == a < max_retries

\* if attempt < max_retries - 1: sleep and go round again
RetryAfter(a) == a < max_retries - 1

\* as Backoff, with attempts counted from 1
Backoff_fromOne(a) == 2 ^ (a + 1)

\* time.sleep(2 ** attempt)
Backoff(a) == 2 ^ a

\* the triple analyse_with_nova returns after an attempt that ends the call
AnalysisResult(resp, kind) ==
  IF kind = "success"
  THEN [issues |-> ParsedOf(resp).wcag_issues.items,
        sources |-> ParsedOf(resp).web_grounding_sources,
        assessment |-> ParsedOf(resp).overall_assessment]
  ELSE IF kind = "no_json"
  THEN [issues |-> <<>>, sources |-> <<>>, assessment |-> "Analysis parsing failed"]
  ELSE [issues |-> <<>>, sources |-> <<>>, assessment |-> "Bedrock error: " \o ErrorText(kind)]

\* the log entry of an attempt
AnalysisEntry(resp, kind, a) ==
  IF kind = "success"
  THEN [Entry("bedrock_analysis", "success") EXCEPT
          !.issue_count = Len(ParsedOf(resp).wcag_issues.items)]
  ELSE IF kind = "no_json"
  THEN [Entry("bedrock_analysis", "no_json_found") EXCEPT
          !.raw = Slice(resp.text, 0, RawLimit)]
  ELSE [Entry("bedrock_analysis", "error") EXCEPT
          !.attempt = a + 1, !.error = ErrorText(kind)]

(* ------------------------ capture_screenshot --------------------------- *)

None == "None"
ShotPath == "agent_screenshots/audit.png"

\* Tier 1: the import fails, the browser session fails, or it succeeds
Tier1Outcomes == {"import_error", "failed", "success"}

\* Tier 2: the subprocess cannot run or times out, exits without SUCCESS,
\* or succeeds
Tier2Outcomes == {"timeout", "bad_exit", "success"}

\* as Tier1Log, without the failed entry of the except clause
Tier1Log_noFailed(l, u, o) ==
  IF o = "import_error" THEN l
  ELSE LET tried == Append(l, [Entry("tier1_novaact", "attempting") EXCEPT !.url = u])
       IN IF o = "success"
          THEN Append(tried, Entry("tier1_novaact", "success"))
          ELSE tried

\* the entries Tier 1 appends
Tier1Log(l, u, o) ==
  IF o = "import_error"
  THEN log_step(l, [Entry("tier1_novaact", "failed") EXCEPT !.error = "ImportError"])
  ELSE LET tried == log_step(l, [Entry("tier1_novaact", "attempting") EXCEPT !.url = u])
       IN IF o = "success"
          THEN log_step(tried, Entry("tier1_novaact", "success"))
          ELSE log_step(tried, [Entry("tier1_novaact", "failed") EXCEPT !.error = "Error"])

\* as Tier2Log, without the failed entry of the except clause
Tier2Log_noFailed(l, o) ==
  LET tried == Append(l, Entry("tier2_playwright", "attempting"))
  IN IF o = "success" THEN Append(tried, Entry("tier2_playwright", "success")) ELSE tried

\* the entries Tier 2 appends
Tier2Log(l, o) ==
  LET tried == log_step(l, Entry("tier2_playwright", "attempting"))
  IN IF o = "success"
     THEN log_step(tried, Entry("tier2_playwright", "success"))
     ELSE log_step(tried, [Entry("tier2_playwright", "failed") EXCEPT
                             !.error = IF o = "timeout" THEN "TimeoutExpired" ELSE "RuntimeError"])

\* as AfterTier1, falling through to Tier 2 after a success too
AfterTier1_noReturn(o) == "tier2"

\* where capture_screenshot goes after Tier 1
AfterTier1(o) == IF o = "success" THEN "captured" ELSE "tier2"

\* as Tier2Return, returning the path whether or not the file was written
Tier2Return_always(o) == ShotPath

\* what capture_screenshot returns after Tier 2
Tier2Return(o) == IF o = "success" THEN ShotPath ELSE None

(* ----------------------- run_accessibility_test ------------------------ *)

NOVA_MODEL == "amazon.nova-pro-v1:0"

Urls == {"https://a.example", "https://b.example"}

NoMetadata ==
  [model_used |-> "", extended_thinking |-> FALSE, web_grounding |-> FALSE,
   api_provider |-> "", web_grounding_sources |-> <<>>, overall_assessment |-> ""]

\* as InitialResults, with the placeholder summary of a passed run
InitialResults_passed(u) ==
  [keys |-> {"url", "timestamp", "issues", "summary"},
   url |-> u,
   issues |-> <<>>,
   skeys |-> {"passed", "total", "score"},
   summary |-> [total |-> 25, passed |-> 25, score |-> 100, wcag_level |-> "",
                by_principle |-> NoScores, critical |-> 0, major |-> 0, minor |-> 0],
   screenshot_path |-> "",
   error |-> "",
   metadata |-> NoMetadata]

\* the dict built before capture; keys and skeys are the keys present in
\* the report and in its summary
InitialResults(u) ==
  [keys |-> {"url", "timestamp", "issues", "summary"},
   url |-> u,
   issues |-> <<>>,
   skeys |-> {"passed", "total", "score"},
   summary |-> [total |-> 25, passed |-> 0, score |-> 0, wcag_level |-> "",
                by_principle |-> NoScores, critical |-> 0, major |-> 0, minor |-> 0],
   screenshot_path |-> "",
   error |-> "",
   metadata |-> NoMetadata]

\* as FailureResults, without setting the error
FailureResults_noError(r) == r

\* the report returned when capture_screenshot returned None
FailureResults(r) ==
  [r EXCEPT !.keys = @ \cup {"error"},
            !.error = "Full Engine Failure: Could not capture screenshot via any tier."]

\* as SuccessResults, with the score of the superseded variant, 25 - issues
SuccessResults_legacy(r, a, path) ==
  LET wcag_scores == calculate_wcag_scores(a.issues)
  IN [r EXCEPT
        !.keys = @ \cup {"screenshot_path", "metadata"},
        !.issues = a.issues,
        !.skeys = {"total", "passed", "score"},
        !.summary = [total |-> 25,
                     passed |-> 25 - Len(a.issues),
                     score |-> 25 - Len(a.issues),
                     wcag_level |-> "",
                     by_principle |-> NoScores,
                     critical |-> 0, major |-> 0, minor |-> 0],
        !.screenshot_path = path,
        !.metadata = [model_used |-> NOVA_MODEL, extended_thinking |-> TRUE,
                      web_grounding |-> TRUE, api_provider |-> "AWS Bedrock",
                      web_grounding_sources |-> a.sources,
                      overall_assessment |-> a.assessment]]

\* the report assembled from the analysis and the scores
SuccessResults(r, a, path) ==
  LET wcag_scores == calculate_wcag_scores(a.issues)
  IN [r EXCEPT
        !.keys = @ \cup {"screenshot_path", "metadata"},
        !.issues = a.issues,
        !.skeys = {"total", "passed", "score", "wcag_level", "by_principle",
                   "critical", "major", "minor"},
        !.summary = [total |-> wcag_scores.total_issues,
                     passed |-> wcag_scores.total_issues - wcag_scores.critical_count,
                     score |-> wcag_scores.overall_score,
                     wcag_level |-> wcag_scores.wcag_level,
                     by_principle |-> wcag_scores.scores_by_principle,
                     critical |-> wcag_scores.critical_count,
                     major |-> wcag_scores.major_count,
                     minor |-> wcag_scores.minor_count],
        !.screenshot_path = path,
        !.metadata = [model_used |-> NOVA_MODEL, extended_thinking |-> TRUE,
                      web_grounding |-> TRUE, api_provider |-> "AWS Bedrock",
                      web_grounding_sources |-> a.sources,
                      overall_assessment |-> a.assessment]]

NoAnalysis == [issues |-> <<>>, sources |-> <<>>, assessment |-> ""]

(* ------------------------------ __main__ ------------------------------- *)

JSON_START == "---JSON_START---"
JSON_END == "---JSON_END---"

\* a printed line: a marker, the report, or the minimal error object
MarkerLine(m) == [kind |-> m, keys |-> {}, error |-> ""]
ReportLine(r) == [kind |-> "json", keys |-> r.keys, error |-> r.error]
ErrorLine == [kind |-> "json", keys |-> {"error", "url"}, error |-> "Serialization Error"]

\* the lines printed by the try block, up to the point where it raised
TryOutput(r, dumps_ok) ==
  IF dumps_ok
  THEN <<MarkerLine(JSON_START), ReportLine(r), MarkerLine(JSON_END)>>
  ELSE <<MarkerLine(JSON_START)>>

\* the lines printed by the except clause
ExceptOutput == <<MarkerLine(JSON_START), ErrorLine, MarkerLine(JSON_END)>>

\* the exit code: sys.exit(1) in the except clause, 0 otherwise
ExitCode(raised) == IF raised THEN 1 ELSE 0

(* ---------------------------- the pipeline ----------------------------- *)

Init ==
  /\ pc = "test_start"
  /\ url \in Urls
  /\ log = <<>>
  /\ screenshot_path = None
  /\ shot_by = 0
  /\ attempt = 0
  /\ analysis = NoAnalysis
  /\ results = InitialResults(url)
  /\ exc = ""
  /\ stdout = <<>>
  /\ exit_code = -1
  /\ trace = <<>>
  /\ tiers = <<>>
  /\ sleeps = <<>>
  /\ scored = 0
  /\ s_pc = "off"
  /\ s_issues = <<>>
  /\ s_orig = <<>>
  /\ s_first = NoSummary
  /\ s_summary = NoSummary
  /\ file = <<>>
  /\ l_pc = [r \in Runs |-> "off"]
  /\ l_done = [r \in Runs |-> 0]
  /\ l_buf = [r \in Runs |-> <<>>]

\* run_accessibility_test up to the call of capture_screenshot
TestStart ==
  /\ pc = "test_start"
  /\ log' = log_step(log, [Entry("test_start", "") EXCEPT !.url = url])
  /\ results' = InitialResults(url)
  /\ pc' = "tier1"
  /\ UNCHANGED <<svars, lvars, url, screenshot_path, shot_by, attempt, analysis, exc, stdout,
                 exit_code, trace, tiers, sleeps, scored>>

\* capture_screenshot, Tier 1
Tier1(o) ==
  /\ pc = "tier1"
  /\ log' = Tier1Log(log, url, o)
  /\ tiers' = Append(tiers, [tier |-> 1, outcome |-> o])
  /\ pc' = AfterTier1(o)
  /\ screenshot_path' = IF o = "success" THEN ShotPath ELSE screenshot_path
  /\ shot_by' = IF o = "success" THEN 1 ELSE shot_by
  /\ UNCHANGED <<svars, lvars, url, attempt, analysis, results, exc, stdout, exit_code, trace,
                 sleeps, scored>>

\* capture_screenshot, Tier 2 and the final return None
Tier2(o) ==
  /\ pc = "tier2"
  /\ log' = Tier2Log(log, o)
  /\ tiers' = Append(tiers, [tier |-> 2, outcome |-> o])
  /\ pc' = "captured"
  /\ screenshot_path' = Tier2Return(o)
  /\ shot_by' = IF o = "success" THEN 2 ELSE shot_by
  /\ UNCHANGED <<svars, lvars, url, attempt, analysis, results, exc, stdout, exit_code, trace,
                 sleeps, scored>>

\* run_accessibility_test: if screenshot_path is None, return the failure report
EngineFailure ==
  /\ pc = "captured"
  /\ screenshot_path = None
  /\ results' = FailureResults(results)
  /\ log' = log_step(log, Entry("test_end", "engine_failure"))
  /\ pc' = "returned"
  /\ UNCHANGED <<svars, lvars, url, screenshot_path, shot_by, attempt, analysis, exc, stdout,
                 exit_code, trace, tiers, sleeps, scored>>

\* as AfterAttempt, retrying a text without delimiters as well
AfterAttempt_retryNoJson(kind, a) ==
  IF kind # "success" /\ RetryAfter(a) THEN "analyse" ELSE "score"

\* where the loop of analyse_with_nova goes after an attempt of this kind
AfterAttempt(kind, a) == IF IsException(kind) /\ RetryAfter(a) THEN "analyse" ELSE "score"

\* run_accessibility_test: otherwise call analyse_with_nova
CallAnalyse ==
  /\ pc = "captured"
  /\ screenshot_path # None
  /\ pc' = "analyse"
  /\ attempt' = 0
  /\ UNCHANGED <<svars, lvars, url, log, screenshot_path, shot_by, analysis, results, exc, stdout,
                 exit_code, trace, tiers, sleeps, scored>>

\* one iteration of the loop of analyse_with_nova
AnalyseAttempt(resp) ==
  LET kind == AttemptKind(resp)
      again == AfterAttempt(kind, attempt) = "analyse"
  IN /\ pc = "analyse"
     /\ attempt < max_retries
     /\ trace' = Append(trace, kind)
     /\ log' = log_step(log, AnalysisEntry(resp, kind, attempt))
     /\ pc' = AfterAttempt(kind, attempt)
     /\ sleeps' = IF again THEN Append(sleeps, Backoff(attempt)) ELSE sleeps
     /\ attempt' = IF again THEN attempt + 1 ELSE attempt
     /\ analysis' = IF again THEN analysis ELSE AnalysisResult(resp, kind)
     /\ UNCHANGED <<svars, lvars, url, screenshot_path, shot_by, results, exc, stdout, exit_code,
                    tiers, scored>>

\* run_accessibility_test from calculate_wcag_scores to the return
ScoreAndAssemble ==
  /\ pc = "score"
  /\ scored' = scored + 1
  /\ IF ScoreRaises(analysis.issues)
     THEN /\ pc' = "raised"
          /\ exc' = "AttributeError"
          /\ UNCHANGED <<results, log>>
     ELSE /\ pc' = "returned"
          /\ results' = SuccessResults(results, analysis, screenshot_path)
          /\ log' = log_step(log, [Entry("test_end", "success") EXCEPT
                                     !.issue_count = Len(analysis.issues),
                                     !.score = results'.summary.score])
          /\ exc' = exc
  /\ UNCHANGED <<svars, lvars, url, screenshot_path, shot_by, attempt, analysis, stdout, exit_code,
                 trace, tiers, sleeps>>

\* __main__ when run_accessibility_test returned: print the report; when
\* json.dumps raises, the except clause prints the error object and exits 1
MainPrint(dumps_ok) ==
  /\ pc = "returned"
  /\ stdout' = IF dumps_ok THEN TryOutput(results, dumps_ok)
               ELSE TryOutput(results, dumps_ok) \o ExceptOutput
  /\ exc' = IF dumps_ok THEN exc ELSE "SerializationError"
  /\ exit_code' = ExitCode(~dumps_ok)
  /\ pc' = "exit"
  /\ UNCHANGED <<svars, lvars, url, log, screenshot_path, shot_by, attempt, analysis, results,
                 trace, tiers, sleeps, scored>>

\* __main__ when run_accessibility_test raised: the except clause
MainExcept ==
  /\ pc = "raised"
  /\ stdout' = ExceptOutput
  /\ exit_code' = ExitCode(TRUE)
  /\ pc' = "exit"
  /\ UNCHANGED <<svars, lvars, url, log, screenshot_path, shot_by, attempt, analysis, results,
                 exc, trace, tiers, sleeps, scored>>

Next ==
  \/ TestStart
  \/ \E o \in Tier1Outcomes : Tier1(o)
  \/ \E o \in Tier2Outcomes : Tier2(o)
  \/ EngineFailure
  \/ CallAnalyse
  \/ \E resp \in Responses : AnalyseAttempt(resp)
  \/ ScoreAndAssemble
  \/ \E dumps_ok \in BOOLEAN : MainPrint(dumps_ok)
  \/ MainExcept

\* every call the pipeline blocks on returns or raises (timeouts of the
\* browser tiers and of the provider), so a run that can step does step
FairSpec == Init /\ [][Next]_vars /\ WF_vars(Next)

Spec == Init /\ [][Next]_vars

(* ------------------------ callers of the scorer ------------------------ *)

SevLower   == <<"c","r","i","t","i","c","a","l">>
SevUnknown == <<"H","I","G","H">>

\* identifiers of Perceivable and of Robust, one that matches no code, and
\* a missing one
ScoreIds ==
  {StrV(Code("1","1","1")), StrV(Code("4","1","2")), StrV(Code("9","9","9")), AbsentV}

ScoreSeverities ==
  {StrV(SevCRITICAL), StrV(SevMAJOR), StrV(SevMINOR), StrV(SevINFO),
   StrV(SevLower), StrV(SevUnknown), AbsentV}

\* the well-formed issues a caller chooses from
ScoreIssues == {Issue(id, sev) : id \in ScoreIds, sev \in ScoreSeverities}

Repeat(i, n) == [k \in 1..n |-> i]

CritPerceivable == Issue(StrV(Code("1","1","1")), StrV(SevCRITICAL))
CritOperable    == Issue(StrV(Code("2","4","7")), StrV(SevCRITICAL))
InfoPrefixed    == Issue(StrV(Code("3","3","1") \o <<"0">>), StrV(SevINFO))

\* lists of many issues: copies of a critical Perceivable issue, of a
\* critical Operable issue and of an informational Understandable issue
\* whose identifier extends the code 3.3.1
BlockLists ==
  {Repeat(CritPerceivable, a) \o Repeat(CritOperable, b) \o Repeat(InfoPrefixed, c) :
     a \in 0..MaxRepeat, b \in 0..MaxRepeat, c \in 0..MaxRepeat}

ScoreInputs == SeqsUpTo(ScoreIssues, MaxIssues) \cup BlockLists

InitScore ==
  /\ pc = "off"
  /\ url = ""
  /\ log = <<>>
  /\ screenshot_path = None
  /\ shot_by = 0
  /\ attempt = 0
  /\ analysis = NoAnalysis
  /\ results = InitialResults("")
  /\ exc = ""
  /\ stdout = <<>>
  /\ exit_code = -1
  /\ trace = <<>>
  /\ tiers = <<>>
  /\ sleeps = <<>>
  /\ scored = 0
  /\ s_pc = "input"
  /\ s_issues \in ScoreInputs
  /\ s_orig = s_issues
  /\ s_first = NoSummary
  /\ s_summary = NoSummary
  /\ file = <<>>
  /\ l_pc = [r \in Runs |-> "off"]
  /\ l_done = [r \in Runs |-> 0]
  /\ l_buf = [r \in Runs |-> <<>>]

\* a call of calculate_wcag_scores; the function only reads its argument
ScoreCall ==
  /\ s_pc \in {"input", "scored", "reordered"}
  /\ s_summary' = calculate_wcag_scores(s_issues)
  /\ s_first' = IF s_pc = "input" THEN s_summary' ELSE s_first
  /\ s_pc' = IF s_pc = "input" THEN "scored" ELSE "rescored"
  /\ UNCHANGED <<s_issues, s_orig>>
  /\ UNCHANGED <<pvars, lvars>>

\* the caller exchanges two neighbours of its list between two calls
Reorder(i) ==
  /\ s_pc = "scored"
  /\ i < Len(s_issues)
  /\ s_issues[i] # s_issues[i + 1]
  /\ s_issues' = [s_issues EXCEPT ![i] = s_issues[i + 1], ![i + 1] = s_issues[i]]
  /\ s_pc' = "reordered"
  /\ UNCHANGED <<s_orig, s_first, s_summary>>
  /\ UNCHANGED <<pvars, lvars>>

NextScore ==
  \/ ScoreCall
  \/ \E i \in 1..Len(s_issues) : Reorder(i)

SpecScore == InitScore /\ [][NextScore]_vars

(* ------------------------- concurrent log_step ------------------------- *)

InitLog ==
  /\ pc = "off"
  /\ url = ""
  /\ log = <<>>
  /\ screenshot_path = None
  /\ shot_by = 0
  /\ attempt = 0
  /\ analysis = NoAnalysis
  /\ results = InitialResults("")
  /\ exc = ""
  /\ stdout = <<>>
  /\ exit_code = -1
  /\ trace = <<>>
  /\ tiers = <<>>
  /\ sleeps = <<>>
  /\ scored = 0
  /\ s_pc = "off"
  /\ s_issues = <<>>
  /\ s_orig = <<>>
  /\ s_first = NoSummary
  /\ s_summary = NoSummary
  /\ file = <<>>
  /\ l_pc = [r \in Runs |-> "idle"]
  /\ l_done = [r \in Runs |-> 0]
  /\ l_buf = [r \in Runs |-> <<>>]

\* log_step: os.makedirs, the file name of the day, the entry with its timestamp
LogPrepare(r) ==
  /\ l_pc[r] = "idle"
  /\ l_done[r] < EntriesPerRun
  /\ l_pc' = [l_pc EXCEPT ![r] = "prepared"]
  /\ UNCHANGED <<file, l_done, l_buf>>
  /\ UNCHANGED <<pvars, svars>>

\* log_step: with open(filename, "a", encoding="utf-8") as f
LogOpen(r) ==
  /\ l_pc[r] = "prepared"
  /\ file' = OpenFile(file)
  /\ l_pc' = [l_pc EXCEPT ![r] = "open"]
  /\ UNCHANGED <<l_done, l_buf>>
  /\ UNCHANGED <<pvars, svars>>

\* log_step: f.write(json.dumps(entry, default=str) + "\n")
LogWrite(r) ==
  /\ l_pc[r] = "open"
  /\ l_buf' = [l_buf EXCEPT ![r] = BufferWrite(LineText(r, l_done[r] + 1))]
  /\ l_pc' = [l_pc EXCEPT ![r] = "written"]
  /\ UNCHANGED <<file, l_done>>
  /\ UNCHANGED <<pvars, svars>>

\* log_step: the end of the with block closes f, which writes out the
\* buffered text piece by piece
LogClose(r) ==
  /\ l_pc[r] = "written"
  /\ l_buf[r] # <<>>
  /\ file' = AppendWrite(file, Head(l_buf[r]))
  /\ l_buf' = [l_buf EXCEPT ![r] = Tail(l_buf[r])]
  /\ l_pc' = [l_pc EXCEPT ![r] = IF Tail(l_buf[r]) = <<>> THEN "idle" ELSE "written"]
  /\ l_done' = [l_done EXCEPT ![r] = IF Tail(l_buf[r]) = <<>> THEN @ + 1 ELSE @]
  /\ UNCHANGED <<pvars, svars>>

NextLog ==
  \/ \E r \in Runs : LogPrepare(r)
  \/ \E r \in Runs : LogOpen(r)
  \/ \E r \in Runs : LogWrite(r)
  \/ \E r \in Runs : LogClose(r)

SpecLog == InitLog /\ [][NextLog]_vars

(* ------------------------------ properties ----------------------------- *)

IsCaptureEntry(e) == e.action \in {"tier1_novaact", "tier2_playwright"}
IsAnalysisEntry(e) == e.action = "bedrock_analysis"
IsFailedEntry(e) == IsCaptureEntry(e) /\ e.status = "failed"
IsSuccessEntry(e) == IsCaptureEntry(e) /\ e.status = "success"

CaptureLog == SelectSeq(log, IsCaptureEntry)
AnalysisLog == SelectSeq(log, IsAnalysisEntry)

\* capture_screenshot has run to its end and no tier produced a screenshot
AllTiersFailed ==
  /\ Len(tiers) = 2
  /\ \A k \in 1..Len(tiers) : tiers[k].outcome # "success"

\* analyse_with_nova has returned
AnalysisReturned == trace # <<>> /\ pc \in {"score", "returned", "raised", "exit"}

\* C1: a run that returns after capture failed on every tier returns a report
\* with a non-empty error, an empty issues list and no screenshot_path; every
\* other run that returns has issues and screenshot_path and no error.
T_C1 ==
  pc = "returned" =>
    IF AllTiersFailed
    THEN /\ "error" \in results.keys
         /\ results.error # ""
         /\ results.issues = <<>>
         /\ "screenshot_path" \notin results.keys
    ELSE /\ "issues" \in results.keys
         /\ "screenshot_path" \in results.keys
         /\ results.screenshot_path # None
         /\ "error" \notin results.keys

W_C1 == pc = "returned" /\ AllTiersFailed /\ "error" \in results.keys

\* C2: run_accessibility_test never raises: whatever capture, analysis and
\* scoring do, the run ends by returning a report.
CE_C2 == pc # "raised"

\* the printed lines hold exactly one JSON object, and it stands directly
\* between the start marker and the end marker
OneObjectBetweenMarkers ==
  /\ Cardinality({k \in 1..Len(stdout) : stdout[k].kind = "json"}) = 1
  /\ \A k \in 1..Len(stdout) :
       stdout[k].kind = "json" =>
         /\ k > 1 /\ k < Len(stdout)
         /\ stdout[k - 1].kind = JSON_START
         /\ stdout[k + 1].kind = JSON_END

\* C3: every CLI run prints one JSON object between the markers, and exits
\* with 1 only when the final serialization failed, with 0 in every other case.
CE_C3 ==
  pc = "exit" =>
    /\ OneObjectBetweenMarkers
    /\ exit_code = (IF exc = "SerializationError" THEN 1 ELSE 0)

\* C4: the tiers are tried in the order 1, 2; when tier 1 succeeds its path
\* is returned and tier 2 is never attempted; tier 2 runs only after tier 1
\* failed.
T_C4 ==
  /\ \A k \in 1..Len(tiers) : tiers[k].tier = k
  /\ Len(tiers) <= 2
  /\ Len(tiers) = 2 => tiers[1].outcome # "success"
  /\ pc = "tier2" => (Len(tiers) = 1 /\ tiers[1].outcome # "success")
  /\ (Len(tiers) >= 1 /\ tiers[1].outcome = "success") =>
       /\ Len(tiers) = 1
       /\ screenshot_path = ShotPath
       /\ shot_by = 1
       /\ \A k \in 1..Len(log) : log[k].action # "tier2_playwright"

W_C4 == pc = "captured" /\ Len(tiers) = 1 /\ tiers[1].outcome = "success"

\* C5: when tier 1 fails and tier 2 succeeds, capture returns the screenshot
\* tier 2 took, and its log holds exactly one failed record, of tier 1, and
\* exactly one success record, of tier 2, the failed one first.
T_C5 ==
  (Len(tiers) = 2 /\ tiers[1].outcome # "success" /\ tiers[2].outcome = "success") =>
    /\ screenshot_path = ShotPath
    /\ shot_by = 2
    /\ Len(SelectSeq(CaptureLog, IsFailedEntry)) = 1
    /\ Len(SelectSeq(CaptureLog, IsSuccessEntry)) = 1
    /\ \E i, j \in 1..Len(CaptureLog) :
         /\ i < j
         /\ CaptureLog[i].action = "tier1_novaact" /\ CaptureLog[i].status = "failed"
         /\ CaptureLog[j].action = "tier2_playwright" /\ CaptureLog[j].status = "success"

W_C5 ==
  /\ pc = "captured"
  /\ Len(tiers) = 2 /\ tiers[1].outcome = "failed" /\ tiers[2].outcome = "success"

\* C6: when every tier fails capture returns None and the run neither
\* analyses nor scores; the classifier is called only after capture returned
\* a screenshot, the scorer only after analyse_with_nova returned.
T_C6 ==
  /\ (AllTiersFailed /\ pc # "tier2") =>
       (screenshot_path = None /\ trace = <<>> /\ scored = 0 /\ pc # "analyse")
  /\ (trace # <<>> \/ pc = "analyse") =>
       (screenshot_path # None /\ \E k \in 1..Len(tiers) : tiers[k].outcome = "success")
  /\ scored > 0 =>
       /\ trace # <<>>
       /\ pc # "analyse"
       /\ ~(IsException(trace[Len(trace)]) /\ Len(trace) < max_retries)
  /\ scored <= 1

W_C6 == pc = "exit" /\ AllTiersFailed /\ trace = <<>> /\ scored = 0

\* C7: analyse_with_nova makes at most 3 attempts, a further attempt follows
\* only an attempt that raised, and after 3 raising attempts it returns empty
\* issues, empty sources and a non-empty assessment; it never raises itself.
T_C7 ==
  /\ Len(trace) <= 3
  /\ \A k \in 1..Len(trace) - 1 : IsException(trace[k])
  /\ (Len(trace) = 3 /\ \A k \in 1..3 : IsException(trace[k])) =>
       /\ pc # "analyse"
       /\ analysis.issues = <<>>
       /\ analysis.sources = <<>>
       /\ analysis.assessment # ""
  /\ (pc = "analyse" /\ trace # <<>>) => IsException(trace[Len(trace)])
  /\ pc = "raised" => scored = 1

W_C7 == pc = "score" /\ Len(trace) = 3 /\ \A k \in 1..3 : IsException(trace[k])

\* C8: when capture succeeds and the classifier call raises on all 3
\* attempts, the run returns a report without error, with the screenshot
\* path, an empty issues list, score 100 and level "AAA - Enhanced".
T_C8 ==
  (Len(trace) = 3 /\ \A k \in 1..3 : trace[k] = "raise") =>
    /\ pc # "raised"
    /\ pc = "returned" =>
         /\ "error" \notin results.keys
         /\ "screenshot_path" \in results.keys
         /\ results.screenshot_path = ShotPath
         /\ results.issues = <<>>
         /\ results.summary.score = 100
         /\ results.summary.wcag_level = "AAA - Enhanced"

W_C8 == pc = "returned" /\ Len(trace) = 3 /\ \A k \in 1..3 : trace[k] = "raise"

\* C9 as stated: once an attempt found no delimiters or failed to parse the
\* delimited substring, analyse_with_nova returns empty issues and a
\* non-empty assessment.
CE_C9 ==
  (AnalysisReturned /\ \E k \in 1..Len(trace) : trace[k] \in {"no_json", "parse_fail"}) =>
    /\ analysis.issues = <<>>
    /\ analysis.assessment # ""

\* C9 as amended: a text without delimiters ends the call at once with empty
\* issues and "Analysis parsing failed"; a substring that fails to parse is
\* retried while fewer than 3 attempts were made and gives empty issues with a
\* "Bedrock error" assessment when it was the third; no exception escapes.
T_C9 ==
  /\ \A k \in 1..Len(trace) :
       /\ trace[k] = "no_json" => (k = Len(trace) /\ pc # "analyse")
       /\ (trace[k] = "parse_fail" /\ k < max_retries) =>
            (Len(trace) > k \/ pc = "analyse")
  /\ (AnalysisReturned /\ trace[Len(trace)] = "no_json") =>
       /\ analysis.issues = <<>>
       /\ analysis.assessment = "Analysis parsing failed"
  /\ (AnalysisReturned /\ trace[Len(trace)] = "parse_fail") =>
       /\ Len(trace) = max_retries
       /\ analysis.issues = <<>>
       /\ analysis.assessment = "Bedrock error: JSONDecodeError"
  /\ ~(pc = "raised" /\ scored = 0)

W_C9 == pc = "score" /\ Len(trace) = 3 /\ trace[3] = "parse_fail" /\ trace[1] = "parse_fail"

\* C10 as stated: an attempt without delimiters and an attempt that fails to
\* parse are both handled as a raised exception: an error record with the
\* attempt number, a retry while fewer than 3 attempts were made.
CE_C10 ==
  \A k \in 1..Len(trace) :
    trace[k] \in {"no_json", "parse_fail"} =>
      /\ AnalysisLog[k].status = "error"
      /\ AnalysisLog[k].attempt = k
      /\ k < max_retries => (Len(trace) > k \/ pc = "analyse")

\* C10 as amended: only the parse failure is handled as a raised exception
\* (error record with the attempt number, backoff and retry while fewer than
\* 3 attempts were made, "Bedrock error" result after the third); a text
\* without delimiters is not retried: one no_json_found record, no backoff,
\* and the call returns "Analysis parsing failed" at once.
T_C10 ==
  /\ Len(AnalysisLog) = Len(trace)
  /\ \A k \in 1..Len(trace) :
       /\ trace[k] \in {"parse_fail", "raise"} =>
            /\ AnalysisLog[k].status = "error"
            /\ AnalysisLog[k].attempt = k
            /\ k < max_retries =>
                 (Len(sleeps) >= k /\ sleeps[k] = 2 ^ (k - 1)
                  /\ (Len(trace) > k \/ pc = "analyse"))
            /\ (k = max_retries /\ AnalysisReturned) =>
                 (analysis.issues = <<>>
                  /\ analysis.assessment = "Bedrock error: " \o ErrorText(trace[k]))
       /\ trace[k] = "no_json" =>
            /\ AnalysisLog[k].status = "no_json_found"
            /\ k = Len(trace)
            /\ pc # "analyse"
            /\ Len(sleeps) = k - 1
            /\ analysis.issues = <<>>
            /\ analysis.assessment = "Analysis parsing failed"

W_C10 == pc = "score" /\ trace = <<"no_json">>

\* run_accessibility_test has returned, or __main__ has printed its report
RunReturned == pc = "returned" \/ (pc = "exit" /\ exc # "AttributeError")

\* C11 as stated: the report of a run whose capture failed on every tier is
\* error-flagged and has no issues and no score.
CE_C11 ==
  (RunReturned /\ AllTiersFailed) =>
    /\ "error" \in results.keys
    /\ results.issues = <<>>
    /\ "score" \notin results.skeys

\* C11 as amended: such a run ends without analysis or scoring, and its
\* report is error-flagged, has an empty issues list and the placeholder
\* summary passed 0, total 25, score 0: no score computed by the scorer.
T_C11 ==
  (RunReturned /\ AllTiersFailed) =>
    /\ "error" \in results.keys
    /\ results.error # ""
    /\ results.issues = <<>>
    /\ trace = <<>>
    /\ scored = 0
    /\ results.skeys = {"passed", "total", "score"}
    /\ results.summary.score = 0
    /\ results.summary.passed = 0
    /\ results.summary.total = 25
    /\ log[Len(log)].action = "test_end"
    /\ log[Len(log)].status = "engine_failure"

W_C11 == pc = "exit" /\ AllTiersFailed /\ exit_code = 0 /\ "error" \in results.keys

Tier2Attempts == Cardinality({k \in 1..Len(tiers) : tiers[k].tier = 2})

CaptureReturned == pc \in {"captured", "analyse", "score", "returned", "raised", "exit"}

\* C12 as stated: tier 2 is retried before it is declared failed, so capture
\* returns None only after more than one tier-2 attempt.
CE_C12 == (CaptureReturned /\ screenshot_path = None) => Tier2Attempts >= 2

\* C12 as amended: tier 2 is attempted at most once, without retry or
\* backoff; after tier 1 failed, a single failure of the tier-2 attempt makes
\* capture return None.
T_C12 ==
  /\ Tier2Attempts <= 1
  /\ (Len(tiers) = 2 /\ tiers[2].outcome # "success") =>
       /\ CaptureReturned
       /\ screenshot_path = None
       /\ sleeps = <<>>
       /\ Len(SelectSeq(CaptureLog, IsFailedEntry)) = 2

W_C12 == pc = "captured" /\ AllTiersFailed /\ Tier2Attempts = 1

IsErrorEntry(e) == e.status \in {"failed", "error", "no_json_found"}

FailedTiers == {k \in 1..Len(tiers) : tiers[k].outcome # "success"}

\* C13 as stated: every recoverable error is logged with its attempt number
\* and its message text.
CE_C13 ==
  \A k \in 1..Len(log) :
    IsErrorEntry(log[k]) => (log[k].attempt >= 1 /\ (log[k].error # "" \/ log[k].raw # <<>>))

\* C13 as amended: every analysis attempt and every tier failure has its log
\* record as soon as it has happened: success with the issue count, a
\* classifier exception with attempt number and message text, a text without
\* delimiters with status no_json_found and no attempt number, a tier
\* failure with the tier's name and message text and no attempt number.
T_C13 ==
  /\ Len(AnalysisLog) = Len(trace)
  /\ \A k \in 1..Len(trace) :
       /\ trace[k] = "success" =>
            /\ AnalysisLog[k].status = "success"
            /\ AnalysisLog[k].issue_count >= 0
            /\ AnalysisReturned => AnalysisLog[k].issue_count = Len(analysis.issues)
       /\ IsException(trace[k]) =>
            /\ AnalysisLog[k].status = "error"
            /\ AnalysisLog[k].attempt = k
            /\ AnalysisLog[k].error # ""
       /\ trace[k] = "no_json" =>
            /\ AnalysisLog[k].status = "no_json_found"
            /\ AnalysisLog[k].attempt = 0
  /\ Len(SelectSeq(CaptureLog, IsFailedEntry)) = Cardinality(FailedTiers)
  /\ \A k \in FailedTiers :
       \E j \in 1..Len(CaptureLog) :
         /\ CaptureLog[j].status = "failed"
         /\ CaptureLog[j].action = (IF k = 1 THEN "tier1_novaact" ELSE "tier2_playwright")
         /\ CaptureLog[j].error # ""
         /\ CaptureLog[j].attempt = 0

W_C13 ==
  /\ pc = "score"
  /\ Len(tiers) = 2 /\ tiers[2].outcome = "success"
  /\ Len(trace) = 3 /\ trace[3] = "no_json"

RECURSIVE SumSeq(_)
SumSeq(q) == IF q = <<>> THEN 0 ELSE Head(q) + SumSeq(Tail(q))

\* C19: analyse_with_nova terminates; it sleeps only after an attempt that
\* raised and was not the third, 2^attempt seconds with attempts counted
\* from 0 (1s, then 2s), so a call makes at most 3 classifier calls and at
\* most 2 sleeps of at most 3 seconds in total.
T_C19 ==
  /\ [](/\ Len(trace) <= 3
        /\ Len(sleeps) <= 2
        /\ SumSeq(sleeps) <= 3
        /\ Len(sleeps) = Cardinality({k \in 1..Len(trace) : IsException(trace[k]) /\ k < 3})
        /\ \A k \in 1..Len(sleeps) : sleeps[k] = 2 ^ (k - 1) /\ IsException(trace[k])
        /\ (trace # <<>> /\ trace[Len(trace)] \in {"success", "no_json"}) =>
             (Len(sleeps) = Len(trace) - 1 /\ pc # "analyse"))
  /\ (pc = "analyse" ~> pc = "score")

W_C19 == pc = "score" /\ Len(trace) = 3 /\ sleeps = <<1, 2>>

(* ----------------------- properties of the scorer ---------------------- *)

\* s_summary is the summary of s_issues
Scored == s_pc \in {"scored", "rescored"}

Principles == {"Perceivable", "Operable", "Understandable", "Robust"}

IsPrefixOf(p, s) == Len(p) <= Len(s) /\ \A k \in 1..Len(p) : s[k] = p[k]

\* the identifier of an issue, "" when it has none
IdOf(issue) == IF issue.wcag_id.t = "str" THEN issue.wcag_id.s ELSE <<>>

\* some code of principle p is a prefix of the issue's identifier
HasCodeOf(issue, p) ==
  \E k \in 1..Len(WCAG_PRINCIPLES[p]) : IsPrefixOf(WCAG_PRINCIPLES[p][k], IdOf(issue))

\* the severity of an issue in upper case, "" when it has none
SeverityOf(issue) == IF issue.severity.t = "str" THEN Upper(issue.severity.s) ELSE <<>>

\* the indices of the issues of principle p with one of the given severities
Having(p, sevs) ==
  {k \in 1..Len(s_issues) : HasCodeOf(s_issues[k], p) /\ SeverityOf(s_issues[k]) \in sevs}

\* the sum of the severity weights of the issues of principle p
WeightSum(p) ==
  20 * Cardinality(Having(p, {SevCRITICAL}))
  + 10 * Cardinality(Having(p, {SevMAJOR}))
  + 1 * Cardinality(Having(p, {SevINFO}))
  + 4 * (Cardinality({k \in 1..Len(s_issues) : HasCodeOf(s_issues[k], p)})
         - Cardinality(Having(p, {SevCRITICAL, SevMAJOR, SevINFO})))

\* C14: each principle score is max(0, 100 - sum of the weights 20 / 10 / 4 / 1
\* of the issues classified into it), so it lies in 0..100; the empty list
\* gives 100 four times; the overall score is the sum of the four principle
\* scores integer-divided by 4.
T_C14 ==
  Scored =>
    /\ \A p \in Principles :
         /\ s_summary.scores_by_principle[p] =
              (IF WeightSum(p) >= 100 THEN 0 ELSE 100 - WeightSum(p))
         /\ s_summary.scores_by_principle[p] \in 0..100
    /\ s_issues = <<>> => \A p \in Principles : s_summary.scores_by_principle[p] = 100
    /\ s_summary.overall_score =
         (s_summary.scores_by_principle["Perceivable"]
          + s_summary.scores_by_principle["Operable"]
          + s_summary.scores_by_principle["Understandable"]
          + s_summary.scores_by_principle["Robust"]) \div 4

W_C14 ==
  /\ Scored
  /\ s_issues = Repeat(CritPerceivable, 6)
  /\ s_summary.scores_by_principle["Perceivable"] = 0
  /\ s_summary.overall_score = 75

\* C15: the level depends on the overall score alone: 90 and above is
\* "AAA - Enhanced", 75..89 "AA - Conformant", 55..74 "AA - Partially
\* Conformant", below 55 "A - Partially Conformant".
T_C15 ==
  Scored =>
    /\ s_summary.overall_score >= 90 => s_summary.wcag_level = "AAA - Enhanced"
    /\ s_summary.overall_score \in 75..89 => s_summary.wcag_level = "AA - Conformant"
    /\ s_summary.overall_score \in 55..74 =>
         s_summary.wcag_level = "AA - Partially Conformant"
    /\ s_summary.overall_score < 55 => s_summary.wcag_level = "A - Partially Conformant"

W_C15 ==
  /\ Scored
  /\ s_summary.overall_score = 55
  /\ s_summary.wcag_level = "AA - Partially Conformant"

Unmatched == {k \in 1..Len(s_issues) : \A p \in Principles : ~HasCodeOf(s_issues[k], p)}

IsMatched(issue) == \E p \in Principles : HasCodeOf(issue, p)

\* C16: an issue belongs to the first principle one of whose codes is a
\* prefix of its identifier, and to no other; an issue whose identifier is
\* empty or matches no code is unclassified: it is counted in
\* unclassified_count and total_issues and changes no principle score; the
\* four buckets and unclassified_count add up to total_issues.
T_C16 ==
  Scored =>
    /\ \A k \in 1..Len(s_issues) :
         /\ PrincipleOf(s_issues[k]) \in Principles \cup {""}
         /\ PrincipleOf(s_issues[k]) = "" <=> k \in Unmatched
         /\ IdOf(s_issues[k]) = <<>> => PrincipleOf(s_issues[k]) = ""
         /\ \A j \in 1..Len(PrincipleNames) :
              PrincipleOf(s_issues[k]) = PrincipleNames[j] =>
                /\ HasCodeOf(s_issues[k], PrincipleNames[j])
                /\ \A i \in 1..(j - 1) : ~HasCodeOf(s_issues[k], PrincipleNames[i])
    /\ s_summary.unclassified_count = Cardinality(Unmatched)
    /\ s_summary.total_issues = Len(s_issues)
    /\ Cardinality({k \in 1..Len(s_issues) : PrincipleOf(s_issues[k]) = "Perceivable"})
       + Cardinality({k \in 1..Len(s_issues) : PrincipleOf(s_issues[k]) = "Operable"})
       + Cardinality({k \in 1..Len(s_issues) : PrincipleOf(s_issues[k]) = "Understandable"})
       + Cardinality({k \in 1..Len(s_issues) : PrincipleOf(s_issues[k]) = "Robust"})
       + s_summary.unclassified_count = s_summary.total_issues
    /\ s_summary.scores_by_principle =
         calculate_wcag_scores(SelectSeq(s_issues, IsMatched)).scores_by_principle
    /\ Unmatched = 1..Len(s_issues) =>
         \A p \in Principles : s_summary.scores_by_principle[p] = 100

W_C16 ==
  /\ Scored
  /\ s_summary.total_issues = 2
  /\ s_summary.unclassified_count = 1
  /\ s_issues[1].wcag_id = AbsentV
  /\ s_summary.scores_by_principle["Robust"] = 80

\* an issue with its severity replaced by MINOR when it is absent or not one
\* of the four names
AsMinor(issue) ==
  IF SeverityOf(issue) \in {SevCRITICAL, SevMAJOR, SevMINOR, SevINFO}
  THEN issue
  ELSE [issue EXCEPT !.severity = StrV(SevMINOR)]

\* C17: within a principle one issue deducts 20 > 10 > 4 > 1 by severity,
\* matched without regard to case, and an issue whose severity is absent or
\* unknown gives the same summary as the issue with severity MINOR.
CE_C17 ==
  Scored =>
    /\ Len(s_issues) = 1 =>
         \A p \in Principles :
           Having(p, {SevCRITICAL}) # {} => s_summary.scores_by_principle[p] = 80
    /\ s_summary = calculate_wcag_scores([k \in 1..Len(s_issues) |-> AsMinor(s_issues[k])])

\* the issues of both lists are the same, with the same numbers of copies
SameIssues(a, b) ==
  /\ Len(a) = Len(b)
  /\ \A k \in 1..Len(a) :
       Cardinality({j \in 1..Len(a) : a[j] = a[k]})
       = Cardinality({j \in 1..Len(b) : b[j] = a[k]})

\* C20: a call leaves its list as it was, a second call on the same list
\* gives the same summary, and so does a call on the list with its issues in
\* another order.
T_C20 ==
  /\ s_pc = "scored" => (s_issues = s_orig /\ s_summary = s_first)
  /\ s_pc \in {"reordered", "rescored"} => SameIssues(s_issues, s_orig)
  /\ s_pc = "rescored" => s_summary = s_first

W_C20 ==
  /\ s_pc = "rescored"
  /\ s_issues # s_orig
  /\ s_first.scores_by_principle["Perceivable"] < 100
  /\ s_first.scores_by_principle["Robust"] < 100

\* issue k of the scored list belongs to a principle and takes the MINOR
\* weight 4 from that principle's score
DeductsMinor(k) ==
  /\ \E p \in Principles : HasCodeOf(s_issues[k], p)
  /\ SeverityOf(s_issues[k]) \notin {SevCRITICAL, SevMAJOR, SevINFO}

\* issue k of the scored list is one of those counted by minor_count
CountedMinor(k) == SeverityCount(<<s_issues[k]>>, SevMINOR) = 1

\* the summary of the report that run_accessibility_test assembles from the
\* scored list
ReportSummary ==
  SuccessResults(InitialResults(""),
                 [issues |-> s_issues, sources |-> <<>>, assessment |-> ""],
                 ShotPath).summary

\* the three counts do not exceed the number of issues
CountsWithinTotal ==
  s_summary.critical_count + s_summary.major_count + s_summary.minor_count
    <= s_summary.total_issues

\* the report's passed is total - critical and lies in 0..total
PassedInRange ==
  /\ ReportSummary.passed = ReportSummary.total - ReportSummary.critical
  /\ ReportSummary.passed \in 0..ReportSummary.total

\* C21: in every summary of the scorer and every successful report the
\* counts agree with the deductions: critical + major + minor <= total,
\* every issue that deducts the MINOR weight (absent and unrecognised
\* severities included) is counted in minor_count, and the report's
\* passed = total - critical lies in 0..total.
CE_C21 ==
  Scored =>
    /\ CountsWithinTotal
    /\ \A k \in 1..Len(s_issues) : DeductsMinor(k) => CountedMinor(k)
    /\ PassedInRange

(* ---------------------- properties of the log file --------------------- *)

\* the file is a sequence of whole lines: a JSON object, then a newline
WholeLines ==
  /\ Len(file) % 2 = 0
  /\ \A i \in 1..Len(file) : file[i].t = (IF i % 2 = 1 THEN "obj" ELSE "nl")

\* every entry a run has logged is in the file once, and the file holds
\* nothing else
EveryEntryOnce ==
  /\ \A r \in Runs : \A k \in 1..l_done[r] :
       Cardinality({i \in 1..Len(file) : file[i] = ObjText(r, k)}) = 1
  /\ \A i \in 1..Len(file) :
       file[i].t = "obj" => (file[i].run \in Runs /\ file[i].k \in 1..l_done[file[i].run])

\* the entries of one run stand in the order in which it wrote them
RunOrder ==
  \A i, j \in 1..Len(file) :
    (i < j /\ file[i].t = "obj" /\ file[j].t = "obj" /\ file[i].run = file[j].run)
      => file[i].k < file[j].k

\* C18: with several runs in log_step on the same file, each call appends
\* one whole line: at all times the file consists of whole lines, holds every
\* entry logged so far once, those of one run in its order, and a step never
\* changes or removes what the file already holds.
T_C18 ==
  /\ [](WholeLines /\ EveryEntryOnce /\ RunOrder)
  /\ [][Len(file') >= Len(file) /\ SubSeq(file', 1, Len(file)) = file]_vars

W_C18 ==
  /\ \A r \in Runs : l_done[r] = EntriesPerRun /\ l_pc[r] = "idle"
  /\ Len(file) = 2 * NumRuns * EntriesPerRun
  /\ file[1].run = 2
  /\ file[3].run = 1
  /\ file[5].run = 2

====
